---- MODULE Spec2Model ----
(***************************************************************************)
(* Model of modules/courses/settings.py: the REST handlers that read and   *)
(* write the course settings document (CourseYamlRESTHandler and its two   *)
(* subclasses) and the hook key path build / prune logic of                *)
(* HtmlHookRESTHandler.                                                    *)
(*                                                                         *)
(* A Python value is either a scalar [s |-> "..."] or a dict [d |-> f]     *)
(* with f a function from string keys to values.  A key string is a        *)
(* sequence of atoms (substrings); SEPARATOR is one of the atoms.          *)
(***************************************************************************)
EXTENDS Integers, Sequences, FiniteSets, TLC

VARIABLES
    pc,         \* path specification: "idle", "built" or "pruned"
    pKey,       \* key string handed to the path builder / pruner
    pLeaf,      \* hook content handed to the path builder
    pDoc,       \* dict handed to the pruner, or returned by the builder
    pOut,       \* result of the pruner run (dict, removed paths, lookups)
    doc,        \* the persisted settings document (course.yaml)
    stored,     \* TRUE iff /course.yaml exists in the file system
    prev,       \* the document and its existence before the last request
    n,          \* number of requests served so far
    req,        \* the request served last
    responses,  \* status codes of the envelopes sent for that request
    trace,      \* what that request reached: process_*, reads, saves, token
    conc,       \* two write requests in flight: what each read and saved
    reg         \* the settings sections registered with the dashboard

pathVars == <<pc, pKey, pLeaf, pDoc, pOut>>
restVars == <<doc, stored, prev, n, req, responses, trace>>
vars ==
    <<pc, pKey, pLeaf, pDoc, pOut, doc, stored, prev, n, req, responses, trace,
      conc, reg>>

----------------------------------------------------------------------------
(* Bounds *)

MaxSegs == 3        \* segments in a generated hook key
MaxDepth == 2       \* nesting depth of the dicts handed to the pruner
MaxRequests == 1    \* requests in one behaviour of the REST specification
MaxCalls == 3       \* registration steps in one behaviour of SpecReg

----------------------------------------------------------------------------
(* Python values *)

Scalar(v) == [s |-> v]
Dict(f) == [d |-> f]
EmptyDict == Dict([k \in {} |-> k])

\* type(x) == dict
IsDict(x) == "d" \in DOMAIN x

\* {element: value}
Single(element, value) == Dict([k \in {element} |-> value])

\* the dict reached from v by following the keys of path `at`
RECURSIVE GetAt(_, _)
GetAt(v, at) ==
    IF at = << >> THEN v ELSE GetAt(v.d[Head(at)], Tail(at))

\* v after `del x[element]` on the dict x reached by `at`
RECURSIVE DelAt(_, _, _)
DelAt(v, at, element) ==
    IF at = << >>
    THEN Dict([k \in DOMAIN v.d \ {element} |-> v.d[k]])
    ELSE Dict([v.d EXCEPT ![Head(at)] = DelAt(@, Tail(at), element)])

----------------------------------------------------------------------------
(* controllers_utils.HtmlHooks *)

SEPARATOR == ":"
HTML_HOOKS == "html_hooks"

\* key.split(SEPARATOR): the maximal runs of atoms between separators,
\* each run concatenated into one string; n separators give n+1 segments.
RECURSIVE SplitFrom(_, _, _, _)
SplitFrom(key, i, cur, acc) ==
    IF i > Len(key) THEN Append(acc, cur)
    ELSE IF key[i] = SEPARATOR
         THEN SplitFrom(key, i + 1, "", Append(acc, cur))
         ELSE SplitFrom(key, i + 1, cur \o key[i], acc)

key_split(key) == SplitFrom(key, 1, "", << >>)

\* reversed(seq)
reversed(seq) == [i \in 1..Len(seq) |-> seq[Len(seq) + 1 - i]]

----------------------------------------------------------------------------
(* HtmlHookRESTHandler: path builder *)

\* the loop of process_put: course_dict = {element: course_dict}
RECURSIVE WrapAll(_, _)
WrapAll(elements, course_dict) ==
    IF elements = << >> THEN course_dict
    ELSE WrapAll(Tail(elements), Single(Head(elements), course_dict))

\* lines 469-473 of process_put: the nested dict for key and hook_content
BuildPathForward(key, hook_content) ==
    WrapAll(key_split(key), Scalar(hook_content))

BuildPath(key, hook_content) ==
    WrapAll(reversed(key_split(key)), Scalar(hook_content))

\* line 474: the value process_put returns
BuildHook(key, hook_content) ==
    Single(HTML_HOOKS, BuildPath(key, hook_content))

----------------------------------------------------------------------------
(* HtmlHookRESTHandler: path pruner *)

\* One run of the pruner: root is course_dict (mutated in place), at is the
\* path from root to pruned_dict, removed lists the paths deleted so far and
\* looked the lookups `element in pruned_dict` with what each one found.
PruneStart(course_dict) ==
    [root |-> course_dict, at |-> << >>, removed |-> << >>, looked |-> << >>]

Look(st, element, found) ==
    [st EXCEPT !.looked =
        Append(@, [at |-> st.at, element |-> element, found |-> found])]

PruneBodyAny(st, element) ==
    LET pruned_dict == GetAt(st.root, st.at)
    IN  IF element \in DOMAIN pruned_dict.d
        THEN [Look(st, element, "scalar") EXCEPT
                  !.root = DelAt(@, st.at, element),
                  !.removed = Append(@, Append(st.at, element))]
        ELSE Look(st, element, "absent")

\* the body of the for loop of _process_delete_internal
PruneBody(st, element) ==
    LET pruned_dict == GetAt(st.root, st.at)
    IN  IF element \in DOMAIN pruned_dict.d
        THEN IF IsDict(pruned_dict.d[element])
             THEN [Look(st, element, "dict") EXCEPT !.at = Append(@, element)]
             ELSE [Look(st, element, "scalar") EXCEPT
                       !.root = DelAt(@, st.at, element),
                       !.removed = Append(@, Append(st.at, element))]
        ELSE Look(st, element, "absent")

RECURSIVE PruneLoopSkipLast(_, _)
PruneLoopSkipLast(st, elements) ==
    IF Len(elements) <= 1 THEN st
    ELSE PruneLoopSkipLast(PruneBody(st, Head(elements)), Tail(elements))

\* the for loop of _process_delete_internal over the segments of the key
RECURSIVE PruneLoop(_, _)
PruneLoop(st, elements) ==
    IF elements = << >> THEN st
    ELSE PruneLoop(PruneBody(st, Head(elements)), Tail(elements))

\* the whole run, with its record of removals and lookups
PruneRun(course_dict, key) == PruneLoop(PruneStart(course_dict), key_split(key))

\* _process_delete_internal(course_dict, key): course_dict after the run
process_delete_internal(course_dict, key) == PruneRun(course_dict, key).root

----------------------------------------------------------------------------
(* Inputs of the path specification *)

SegNames == {"a", "b", ""}
DictNames == {"a", "b"}
Contents == {"<p>hi</p>", ""}
Old == Scalar("<p>old</p>")
Scalars == {Old}

\* the key string whose segments are segs: SEPARATOR.join(segs)
RECURSIVE Join(_)
Join(segs) ==
    LET first == IF Head(segs) = "" THEN << >> ELSE <<Head(segs)>>
    IN  IF Len(segs) = 1 THEN first
        ELSE first \o <<SEPARATOR>> \o Join(Tail(segs))

Keys == UNION {{Join(segs) : segs \in [1..len -> SegNames]} : len \in 1..MaxSegs}

\* the dicts over DictNames nested at most depth levels deep
RECURSIVE DictsOfDepth(_)
DictsOfDepth(depth) ==
    IF depth = 0 THEN {EmptyDict}
    ELSE LET values == Scalars \cup DictsOfDepth(depth - 1)
         IN  UNION {{Dict(f) : f \in [S -> values]} : S \in SUBSET DictNames}

Docs == DictsOfDepth(MaxDepth)

----------------------------------------------------------------------------
(* Collaborators of the REST handlers: token check, schema, merge, save *)

None == [none |-> TRUE]

\* Python truth value of a dict or None
Truthy(x) == x # None /\ x # EmptyDict

\* assert_xsrf_token_or_fail: TRUE iff the token was issued for action;
\* otherwise it sends one envelope itself, with XSRF_FAILURE_STATUS (the
\* framework's status for a bad token; no property depends on its value).
XSRF_FAILURE_STATUS == 403
assert_xsrf_token_or_fail(xsrf_token, action) == xsrf_token = action

\* the sections and values the settings schema knows
SchemaSections == {"course"}
INVALID == "<invalid>"

\* schema.convert_json_to_entity(payload, request_data) of the settings
\* schema: request_data gets the sections of payload that the schema has
settings_convert_json_to_entity(payload) ==
    Dict([k \in DOMAIN payload.d \cap SchemaSections |-> payload.d[k]])

\* REGISTRY.convert_json_to_entity(payload, request_data) of the hook
\* registry, whose one field is hook_content
hook_convert_json_to_entity(payload) ==
    Dict([k \in DOMAIN payload.d \cap {"hook_content"} |-> payload.d[k]])

\* schema.validate(request_data, errors): the paths of the rejected values
RECURSIVE schema_validate(_, _)
schema_validate(v, path) ==
    IF IsDict(v)
    THEN UNION {schema_validate(v.d[k], Append(path, k)) : k \in DOMAIN v.d}
    ELSE IF v.s = INVALID THEN {path} ELSE {}

\* courses.deep_dict_merge(real_values, default_values): the keys of the
\* update overwrite or extend those of the current dict, recursively
RECURSIVE deep_dict_merge(_, _)
deep_dict_merge(real_values, default_values) ==
    Dict([k \in DOMAIN real_values.d \cup DOMAIN default_values.d |->
        IF k \notin DOMAIN real_values.d THEN default_values.d[k]
        ELSE IF k \notin DOMAIN default_values.d THEN real_values.d[k]
        ELSE IF IsDict(real_values.d[k]) /\ IsDict(default_values.d[k])
             THEN deep_dict_merge(real_values.d[k], default_values.d[k])
             ELSE real_values.d[k]])

----------------------------------------------------------------------------
(* CourseSettingsRESTHandler *)

Settings == "CourseSettingsRESTHandler"
Hook == "HtmlHookRESTHandler"
Handlers == {Settings, Hook}

XSRF_ACTION(handler) ==
    IF handler = Settings THEN "basic-course-settings-put" ELSE "html-hook-put"

GROUP_EMAIL == "cb-forum@googlegroups.com"

\* email.split('@')[0] when the address is one of a Google group
get_group_id(email) == IF email = GROUP_EMAIL THEN "cb-forum" ELSE ""

get_groups_web_url(email) ==
    IF get_group_id(email) = "" THEN ""
    ELSE "https://groups.google.com/group/" \o get_group_id(email)

get_groups_embed_url(email) ==
    IF get_group_id(email) = "" THEN ""
    ELSE "https://groups.google.com/forum/embed/?place=forum/"
             \o get_group_id(email)

\* dict with key set to value
SetKey(dict, key, value) ==
    Dict([k \in DOMAIN dict.d \cup {key} |->
             IF k = key THEN value ELSE dict.d[k]])

process_course_data(course_data) ==
    IF IsDict(course_data) /\ "forum_email" \in DOMAIN course_data.d
                           /\ ~IsDict(course_data.d["forum_email"])
    THEN LET forum_email == course_data.d["forum_email"].s
             web == get_groups_web_url(forum_email)
             embed == get_groups_embed_url(forum_email)
             with_web == IF web # ""
                         THEN SetKey(course_data, "forum_url", Scalar(web))
                         ELSE course_data
         IN  IF embed # ""
             THEN SetKey(with_web, "forum_embed_url", Scalar(embed))
             ELSE with_web
    ELSE course_data

\* CourseSettingsRESTHandler.process_put: the entity to merge, or None
\* after a 400 envelope
settings_process_put_NoValidate(request, payload) ==
    LET request_data == settings_convert_json_to_entity(payload)
    IN  [data |-> IF "course" \in DOMAIN request_data.d
                  THEN SetKey(request_data, "course",
                              process_course_data(request_data.d["course"]))
                  ELSE request_data,
         sent |-> << >>]

settings_process_put(request, payload) ==
    LET request_data == settings_convert_json_to_entity(payload)
        errors == schema_validate(request_data, << >>)
    IN  IF errors # {} THEN [data |-> None, sent |-> <<400>>]
        ELSE [data |-> IF "course" \in DOMAIN request_data.d
                       THEN SetKey(request_data, "course",
                                process_course_data(request_data.d["course"]))
                       ELSE request_data,
              sent |-> << >>]

----------------------------------------------------------------------------
(* HtmlHookRESTHandler *)

\* HtmlHookRESTHandler.process_put: the dict to merge, or None after a 400
\* envelope
hook_process_put(request, payload) ==
    LET request_data == hook_convert_json_to_entity(payload)
    IN  IF "hook_content" \notin DOMAIN request_data.d
        THEN [data |-> None, sent |-> <<400>>]
        ELSE IF request.key = << >>
        THEN [data |-> None, sent |-> <<400>>]
        ELSE [data |-> BuildHook(request.key,
                                 request_data.d["hook_content"].s),
              sent |-> << >>]

hook_postprocess_put_InHooks(course_settings, request) ==
    IF request.key # << >> /\ HTML_HOOKS \in DOMAIN course_settings.d
    THEN SetKey(course_settings, HTML_HOOKS,
             process_delete_internal(course_settings.d[HTML_HOOKS],
                                     request.key))
    ELSE course_settings

\* HtmlHookRESTHandler.postprocess_put
hook_postprocess_put(course_settings, request) ==
    IF request.key # << >>
    THEN process_delete_internal(course_settings, request.key)
    ELSE course_settings

\* HtmlHookRESTHandler.process_delete on the dict get_course_dict returned
hook_process_delete(course_dict, key) ==
    LET in_hooks ==
            IF HTML_HOOKS \in DOMAIN course_dict.d
            THEN SetKey(course_dict, HTML_HOOKS,
                     process_delete_internal(course_dict.d[HTML_HOOKS], key))
            ELSE course_dict
    IN  process_delete_internal(in_hooks, key)

----------------------------------------------------------------------------
(* CourseYamlRESTHandler *)

process_put(handler, request, payload) ==
    IF handler = Settings THEN settings_process_put(request, payload)
    ELSE hook_process_put(request, payload)

postprocess_put(handler, course_settings, request) ==
    IF handler = Settings THEN course_settings
    ELSE hook_postprocess_put(course_settings, request)

is_deletion_allowed_Always(handler) == TRUE

is_deletion_allowed(handler) == handler = Hook

NoRequest == [verb |-> "none"]

\* what a request did: reached process_put / process_delete, read the
\* document, issued a token, merged, and its calls of save_settings, each
\* with the dict passed and the answer
NoTrace ==
    [reached |-> FALSE, read |-> FALSE, token |-> FALSE, merged |-> FALSE,
     saves |-> << >>]

Save(course_settings, accepted) ==
    [entity |-> course_settings, accepted |-> accepted]

\* the outcome of a handler: envelopes sent, trace, document afterwards
Outcome(sent, tr, after, exists) ==
    [responses |-> sent, trace |-> tr, doc |-> after, stored |-> exists]

put_checks_NoPayloadCheck(r) ==
    IF r.request_param = "missing" THEN 400
    ELSE IF r.request_param = "malformed" THEN 400
    ELSE IF r.key = << >> THEN 400
    ELSE IF r.payload_param = "malformed" THEN 400
    ELSE IF ~assert_xsrf_token_or_fail(r.xsrf_token, XSRF_ACTION(r.handler))
         THEN XSRF_FAILURE_STATUS
    ELSE IF ~r.can_edit THEN 401
    ELSE 0

put_checks_NoXsrf(r) ==
    IF r.request_param = "missing" THEN 400
    ELSE IF r.request_param = "malformed" THEN 400
    ELSE IF r.key = << >> THEN 400
    ELSE IF r.payload_param = "missing" THEN 400
    ELSE IF r.payload_param = "malformed" THEN 400
    ELSE IF ~r.can_edit THEN 401
    ELSE 0

\* put, lines 226-259: the status of the check that ends the request, or 0
put_checks(r) ==
    IF r.request_param = "missing" THEN 400
    ELSE IF r.request_param = "malformed" THEN 400
    ELSE IF r.key = << >> THEN 400
    ELSE IF r.payload_param = "missing" THEN 400
    ELSE IF r.payload_param = "malformed" THEN 400
    ELSE IF ~assert_xsrf_token_or_fail(r.xsrf_token, XSRF_ACTION(r.handler))
         THEN XSRF_FAILURE_STATUS
    ELSE IF ~r.can_edit THEN 401
    ELSE 0

put_write_Unmerged(r, course_dict, exists, accepted) ==
    LET pp == process_put(r.handler, r, r.payload)
        reached == [NoTrace EXCEPT !.reached = TRUE]
    IN  IF ~Truthy(pp.data)
        THEN Outcome(pp.sent, reached, course_dict, exists)
        ELSE LET course_settings == postprocess_put(r.handler, pp.data, r)
                 tr == [reached EXCEPT !.read = TRUE, !.merged = TRUE,
                                       !.saves = <<Save(course_settings,
                                                        accepted)>>]
             IN  IF accepted
                 THEN Outcome(pp.sent \o <<200>>, tr, course_settings, TRUE)
                 ELSE Outcome(pp.sent \o <<412, 200>>, tr, course_dict, exists)

\* put, lines 261-275, for a request that passed the checks; accepted is
\* the answer of save_settings
put_write(r, course_dict, exists, accepted) ==
    LET pp == process_put(r.handler, r, r.payload)
        reached == [NoTrace EXCEPT !.reached = TRUE]
    IN  IF ~Truthy(pp.data)
        THEN Outcome(pp.sent, reached, course_dict, exists)
        ELSE LET merged == deep_dict_merge(pp.data, course_dict)
                 course_settings == postprocess_put(r.handler, merged, r)
                 tr == [reached EXCEPT !.read = TRUE, !.merged = TRUE,
                                       !.saves = <<Save(course_settings,
                                                        accepted)>>]
             IN  IF accepted
                 THEN Outcome(pp.sent \o <<200>>, tr, course_settings, TRUE)
                 ELSE Outcome(pp.sent \o <<412, 200>>, tr, course_dict, exists)

\* CourseYamlRESTHandler.put
put(r, course_dict, exists, accepted) ==
    IF put_checks(r) # 0
    THEN Outcome(<<put_checks(r)>>, NoTrace, course_dict, exists)
    ELSE put_write(r, course_dict, exists, accepted)

delete_checks_NoEdit(r) ==
    IF ~assert_xsrf_token_or_fail(r.xsrf_token, XSRF_ACTION(r.handler))
    THEN XSRF_FAILURE_STATUS
    ELSE IF ~is_deletion_allowed(r.handler) THEN 401
    ELSE 0

\* delete, lines 283-293: the status of the check that ends the request, or 0
delete_checks(r) ==
    IF ~assert_xsrf_token_or_fail(r.xsrf_token, XSRF_ACTION(r.handler))
    THEN XSRF_FAILURE_STATUS
    ELSE IF ~r.can_edit \/ ~is_deletion_allowed(r.handler) THEN 401
    ELSE 0

\* CourseYamlRESTHandler.delete
delete(r, course_dict, exists, accepted) ==
    IF delete_checks(r) # 0
    THEN Outcome(<<delete_checks(r)>>, NoTrace, course_dict, exists)
    ELSE LET entity == hook_process_delete(course_dict, r.key)
             tr == [NoTrace EXCEPT !.reached = TRUE, !.read = TRUE,
                                   !.saves = <<Save(entity, accepted)>>]
         IN  IF accepted THEN Outcome(<<200>>, tr, entity, TRUE)
             ELSE Outcome(<< >>, tr, course_dict, exists)

\* CourseYamlRESTHandler.get
get(r, course_dict, exists) ==
    IF ~r.can_view THEN Outcome(<<401>>, NoTrace, course_dict, exists)
    ELSE IF ~exists
    THEN Outcome(<<404>>, [NoTrace EXCEPT !.read = TRUE], course_dict, exists)
    ELSE Outcome(<<200>>, [NoTrace EXCEPT !.read = TRUE, !.token = TRUE],
                 course_dict, exists)

----------------------------------------------------------------------------
(* Requests *)

RestSegs == {"a", "b", HTML_HOOKS}
RestKeys == UNION {{Join(segs) : segs \in [1..len -> RestSegs]} : len \in 1..2}
SettingsKey == <<"/course.yaml">>

Tokens == {"", XSRF_ACTION(Settings), XSRF_ACTION(Hook)}

HookPayloads ==
    {EmptyDict} \cup {Single("hook_content", Scalar(c)) : c \in Contents}

SettingsPayloads ==
    {EmptyDict,
     Single("bogus", Scalar("1")),
     Single("course", Single("title", Scalar("New"))),
     Single("course", Single("title", Scalar(INVALID))),
     Single("course", Single("forum_email", Scalar(GROUP_EMAIL)))}

KeysOf(handler) == IF handler = Settings THEN {SettingsKey} ELSE RestKeys
PayloadsOf(handler) ==
    IF handler = Settings THEN SettingsPayloads ELSE HookPayloads

PutRequest(handler, request_param, key, payload_param, payload, token, edit) ==
    [verb |-> "PUT", handler |-> handler, request_param |-> request_param,
     key |-> key, payload_param |-> payload_param, payload |-> payload,
     xsrf_token |-> token, can_edit |-> edit]

\* requests that lack a part carry nothing after it
PutRequests ==
    UNION {
        {PutRequest(h, p, << >>, "missing", EmptyDict, "", e) :
            p \in {"missing", "malformed"}, e \in BOOLEAN}
        \cup {PutRequest(h, "json", << >>, "json", pl, t, e) :
            pl \in PayloadsOf(h), t \in {XSRF_ACTION(h)}, e \in BOOLEAN}
        \cup {PutRequest(h, "json", k, p, EmptyDict, t, e) :
            k \in KeysOf(h), p \in {"missing", "malformed"},
            t \in {XSRF_ACTION(h)}, e \in BOOLEAN}
        \cup {PutRequest(h, "json", k, "json", pl, t, e) :
            k \in KeysOf(h), pl \in PayloadsOf(h), t \in Tokens,
            e \in BOOLEAN}
        : h \in Handlers}

DeleteRequests ==
    UNION {{[verb |-> "DELETE", handler |-> h, key |-> k, xsrf_token |-> t,
             can_edit |-> e] :
                k \in KeysOf(h) \cup {<< >>}, t \in Tokens, e \in BOOLEAN}
           : h \in Handlers}

GetRequests ==
    UNION {{[verb |-> "GET", handler |-> h, key |-> k, can_view |-> v] :
                k \in KeysOf(h), v \in BOOLEAN}
           : h \in Handlers}

\* course.yaml documents a course can have: settings only, hooks under
\* HTML_HOOKS, and the hooks of an old course at the top level
InitDocs ==
    {Single("course", Single("title", Scalar("Old"))),
     Single(HTML_HOOKS, Dict([k \in {"a", "b"} |-> Old])),
     Single(HTML_HOOKS, Single("a", Single("b", Old))),
     Dict([k \in {"a", "b", HTML_HOOKS} |->
              IF k = HTML_HOOKS THEN Single("a", Old) ELSE Old])}

Writers == {"w1", "w2"}

\* no write request in flight
ConcIdle == [at |-> [w \in Writers |-> [phase |-> "idle"]], log |-> << >>]

\* no settings section registered: GROUP_SETTINGS_LISTS is empty, and so
\* are the dashboard's settings menu and its permission checkers
RegIdle ==
    [GROUP_SETTINGS_LISTS |-> [name \in {} |-> << >>],
     menu |-> << >>, checkers |-> << >>, calls |-> << >>, steps |-> 0]

RestIdle ==
    /\ conc = ConcIdle
    /\ reg = RegIdle
    /\ doc = EmptyDict
    /\ stored = FALSE
    /\ prev = [doc |-> EmptyDict, stored |-> FALSE]
    /\ n = 0
    /\ req = NoRequest
    /\ responses = << >>
    /\ trace = NoTrace

InitPath ==
    /\ pc = "idle"
    /\ pKey = << >>
    /\ pLeaf = ""
    /\ pDoc = EmptyDict
    /\ pOut = PruneStart(EmptyDict)
    /\ RestIdle

\* build the path of key with hook_content (process_put), then prune key
\* from the nested dict just built (_process_delete_internal)
BuildThenPrune ==
    /\ pc = "idle"
    /\ \E key \in Keys, hook_content \in Contents :
          /\ pKey' = key
          /\ pLeaf' = hook_content
          /\ pDoc' = BuildHook(key, hook_content)
          /\ pOut' = PruneRun(BuildPath(key, hook_content), key)
    /\ pc' = "built"
    /\ UNCHANGED <<restVars, conc, reg>>

\* prune key from an arbitrary dict (_process_delete_internal)
PruneDoc ==
    /\ pc = "idle"
    /\ \E key \in Keys, course_dict \in Docs :
          /\ pKey' = key
          /\ pDoc' = course_dict
          /\ pOut' = PruneRun(course_dict, key)
    /\ pLeaf' = ""
    /\ pc' = "pruned"
    /\ UNCHANGED <<restVars, conc, reg>>

NextPath == BuildThenPrune \/ PruneDoc

SpecPath == InitPath /\ [][NextPath]_vars

----------------------------------------------------------------------------
(* The REST specification: requests served one after the other *)

PathIdle ==
    /\ pc = "idle"
    /\ pKey = << >>
    /\ pLeaf = ""
    /\ pDoc = EmptyDict
    /\ pOut = PruneStart(EmptyDict)

Init ==
    /\ PathIdle
    /\ \/ stored = FALSE /\ doc = EmptyDict
       \/ stored = TRUE /\ doc \in InitDocs
    /\ prev = [doc |-> doc, stored |-> stored]
    /\ n = 0
    /\ req = NoRequest
    /\ responses = << >>
    /\ trace = NoTrace
    /\ conc = ConcIdle
    /\ reg = RegIdle

Serve(r, out) ==
    /\ req' = r
    /\ responses' = out.responses
    /\ trace' = out.trace
    /\ doc' = out.doc
    /\ stored' = out.stored
    /\ prev' = [doc |-> doc, stored |-> stored]
    /\ n' = n + 1
    /\ UNCHANGED <<pathVars, conc, reg>>

Put ==
    /\ n < MaxRequests
    /\ \E r \in PutRequests, accepted \in BOOLEAN :
          Serve(r, put(r, doc, stored, accepted))

Delete ==
    /\ n < MaxRequests
    /\ \E r \in DeleteRequests, accepted \in BOOLEAN :
          Serve(r, delete(r, doc, stored, accepted))

Get ==
    /\ n < MaxRequests
    /\ \E r \in GetRequests : Serve(r, get(r, doc, stored))

Next == Put \/ Delete \/ Get

Spec == Init /\ [][Next]_vars

----------------------------------------------------------------------------
(* Two concurrent writers: each reads the document (get_course_dict, lines *)
(* 270 and 492), computes the dict to save from what it read, and calls    *)
(* save_settings later; the other writer may run in between.               *)

\* the write requests that get as far as reading the document
WriteRequests ==
    {r \in PutRequests :
        put_checks(r) = 0 /\ Truthy(process_put(r.handler, r, r.payload).data)}
    \cup {r \in DeleteRequests : delete_checks(r) = 0}

\* the handler of r run on the document it read
handle(r, course_dict, exists, accepted) ==
    IF r.verb = "PUT" THEN put(r, course_dict, exists, accepted)
    ELSE delete(r, course_dict, exists, accepted)

InitLww == Init

\* writer w gets to get_course_dict
ReadWrite(w) ==
    /\ conc.at[w].phase = "idle"
    /\ \E r \in WriteRequests :
          conc' = [at |-> [conc.at EXCEPT ![w] =
                              [phase |-> "read", r |-> r,
                               read |-> doc, exists |-> stored]],
                   log |-> Append(conc.log, <<w, "read">>)]
    /\ UNCHANGED <<pathVars, doc, stored, prev, n, req, responses, trace, reg>>

\* writer w gets to save_settings and sends its envelopes
SaveWrite(w) ==
    /\ conc.at[w].phase = "read"
    /\ \E accepted \in BOOLEAN :
          LET me == conc.at[w]
              out == handle(me.r, me.read, me.exists, accepted)
          IN  /\ doc' = IF accepted THEN out.doc ELSE doc
              /\ stored' = IF accepted THEN out.stored ELSE stored
              /\ conc' = [at |-> [conc.at EXCEPT ![w] =
                                     [phase |-> "saved", r |-> me.r,
                                      read |-> me.read, exists |-> me.exists,
                                      accepted |-> accepted,
                                      responses |-> out.responses]],
                          log |-> Append(conc.log, <<w, "save">>)]
    /\ UNCHANGED <<pathVars, prev, n, req, responses, trace, reg>>

NextLww == \E w \in Writers : ReadWrite(w) \/ SaveWrite(w)

SpecLww == InitLww /\ [][NextLww]_vars

----------------------------------------------------------------------------
(* CourseSettingsHandler.register_settings_section *)

SETTINGS_TAB_NAME == "settings"

IsString(x) == "s" \in DOMAIN x
List(seq) == [list |-> seq]

\* CourseSettingsHandler.get_schema_title: the title the schema gives the
\* sub-registry
get_schema_title(name) == "title of " \o name

Call(settings, name, placement, title, sub_group_name) ==
    [settings |-> settings, name |-> name, placement |-> placement,
     title |-> title, sub_group_name |-> sub_group_name]

\* lines 145-154: the arguments after their defaults are filled in
Defaults(c) ==
    LET settings == IF IsString(c.settings) THEN <<c.settings.s>>
                    ELSE c.settings.list
        name == IF c.name = None THEN settings[1] ELSE c.name.s
    IN  [settings |-> settings,
         name |-> name,
         title |-> IF c.title = None THEN get_schema_title(settings[1])
                   ELSE c.title.s,
         sub_group_name |-> IF c.sub_group_name = None THEN "default"
                            ELSE c.sub_group_name.s,
         placement |-> c.placement,
         action_name |-> "settings_" \o name]

\* lines 172-182: the first registration of a name
RegisterNew(rg, a) ==
    [rg EXCEPT
        !.GROUP_SETTINGS_LISTS =
            [k \in DOMAIN @ \cup {a.name} |->
                IF k = a.name THEN a.settings ELSE @[k]],
        !.menu = Append(@, [group |-> SETTINGS_TAB_NAME, name |-> a.name,
                            title |-> a.title, action |-> a.action_name,
                            placement |-> a.placement,
                            sub_group_name |-> a.sub_group_name]),
        !.checkers = Append(@, a.action_name)]

register_settings_section_AlwaysNew(rg, c) == RegisterNew(rg, Defaults(c))

\* register_settings_section: rg after the call with arguments c; a later
\* call with a known name only extends the list (the title and placement
\* checks of lines 158-170 only log)
register_settings_section(rg, c) ==
    LET a == Defaults(c)
    IN  IF a.name \in DOMAIN rg.GROUP_SETTINGS_LISTS
        THEN [rg EXCEPT !.GROUP_SETTINGS_LISTS[a.name] = @ \o a.settings]
        ELSE RegisterNew(rg, a)

RECURSIVE RegisterAll(_, _)
RegisterAll(rg, cs) ==
    IF cs = << >> THEN rg
    ELSE RegisterAll(register_settings_section(rg, Head(cs)), Tail(cs))

\* the registrations of on_module_enabled, lines 687-694
ModuleCalls ==
    <<Call(Scalar("homepage"), None, Scalar(1000), None, Scalar("pinned")),
      Call(Scalar("course"), None, Scalar(2000), None, Scalar("pinned")),
      Call(Scalar("unit"), None, Scalar(3000), None, Scalar("pinned")),
      Call(Scalar("registration"), None, None, None, None),
      Call(Scalar("assessment"), None, None, None, None)>>

RegCalls ==
    {Call(st, nm, pl, ti, None) :
        st \in {Scalar("course"), Scalar("unit"), List(<<"unit", "lesson">>)},
        nm \in {None, Scalar("unit")},
        pl \in {None, Scalar(1000)},
        ti \in {None, Scalar("Units")}}
    \cup {Call(Scalar("course:now_available"), Scalar("course"), None, None,
               Scalar("advanced"))}

InitReg ==
    /\ PathIdle
    /\ RestIdle

\* on_module_enabled registers the sections of this module
OnModuleEnabled ==
    /\ reg.steps = 0
    /\ reg' = [RegisterAll(reg, ModuleCalls) EXCEPT
                  !.calls = @ \o ModuleCalls, !.steps = @ + 1]
    /\ UNCHANGED <<pathVars, restVars, conc>>

\* some module registers a settings section
Register ==
    /\ reg.steps < MaxCalls
    /\ \E c \in RegCalls :
          reg' = [register_settings_section(reg, c) EXCEPT
                     !.calls = Append(@, c), !.steps = @ + 1]
    /\ UNCHANGED <<pathVars, restVars, conc>>

NextReg == OnModuleEnabled \/ Register

SpecReg == InitReg /\ [][NextReg]_vars

----------------------------------------------------------------------------
(* Properties of the path builder and pruner, checked under SpecPath *)

Front(seq) == SubSeq(seq, 1, Len(seq) - 1)

\* follow segs from v through dicts that hold exactly one key each
RECURSIVE ChainEnd(_, _)
ChainEnd(v, segs) ==
    IF segs = << >> THEN v
    ELSE IF IsDict(v) /\ DOMAIN v.d = {Head(segs)}
         THEN ChainEnd(v.d[Head(segs)], Tail(segs))
         ELSE [broken |-> segs]

\* every segment of segs, followed from v, is present and holds a dict
RECURSIVE ResolvesToDicts(_, _)
ResolvesToDicts(v, segs) ==
    \/ segs = << >>
    \/ /\ Head(segs) \in DOMAIN v.d
       /\ IsDict(v.d[Head(segs)])
       /\ ResolvesToDicts(v.d[Head(segs)], Tail(segs))

\* C1 as stated: building a key path and pruning it again yields an empty
\* document, for one segment and for several.
C1_RoundTripEmpty ==
    pc = "built" => pOut.root = EmptyDict

\* C1 amended: building a key path and pruning it again removes the leaf
\* and nothing else: one key is deleted, the one at the full path, and the
\* enclosing dicts stay, the innermost one empty; only a path of one
\* segment yields an empty document.
C1_RoundTripRemovesLeafOnly ==
    pc = "built" =>
        LET segs == key_split(pKey)
        IN  /\ pOut.removed = <<segs>>
            /\ ChainEnd(pOut.root, Front(segs)) = EmptyDict
            /\ (pOut.root = EmptyDict) = (Len(segs) = 1)

C1_Witness ==
    /\ pc = "built"
    /\ Len(key_split(pKey)) = 3
    /\ pOut.root = Single("a", Single("b", EmptyDict))

\* C2 as stated: one run of the pruner removes at most one key from the
\* document: after the removal at the first segment that holds no dict,
\* no later segment is examined, so none is removed.
C2_AtMostOneRemoval ==
    pc = "pruned" => Len(pOut.removed) <= 1

\* C3 as stated: when the pruner finds a segment absent from the dict it
\* is in (every segment before it held a dict), it stops there: the
\* document is unchanged by the call.
C3_AbsentSegmentStops ==
    pc = "pruned" =>
        \A i \in 1..Len(pOut.looked) :
            (/\ pOut.looked[i].found = "absent"
             /\ \A j \in 1..(i - 1) : pOut.looked[j].found = "dict")
            => pOut.root = pDoc

\* C4: pruning a key path whose every segment resolves to a dict leaves the
\* document unchanged; nothing is removed.
C4_DictPathUnchanged ==
    (pc = "pruned" /\ ResolvesToDicts(pDoc, key_split(pKey)))
        => pOut.root = pDoc /\ pOut.removed = << >>

C4_Witness ==
    /\ pc = "pruned"
    /\ ResolvesToDicts(pDoc, key_split(pKey))
    /\ GetAt(pDoc, key_split(pKey)) # EmptyDict
    /\ pOut.root = pDoc

\* C5: process_put returns, under the single top-level key HTML_HOOKS, a
\* chain of dicts with exactly one key each, keyed by the segments of the
\* key in order, that ends in the hook content.
C5_BuildSinglyNested ==
    pc = "built" =>
        /\ DOMAIN pDoc.d = {HTML_HOOKS}
        /\ ChainEnd(pDoc.d[HTML_HOOKS], key_split(pKey)) = Scalar(pLeaf)

C5_Witness ==
    /\ pc = "built"
    /\ pKey = <<"a", SEPARATOR, "b", SEPARATOR, "a">>
    /\ pDoc = Single(HTML_HOOKS,
                      Single("a", Single("b", Single("a", Scalar(pLeaf)))))

----------------------------------------------------------------------------
(* Properties of the REST handlers, checked under Spec *)

IsWrite(r) == r.verb \in {"PUT", "DELETE"}

InputOk(r) ==
    r.request_param = "json" /\ r.key # << >> /\ r.payload_param = "json"

TokenOk(r) == r.xsrf_token = XSRF_ACTION(r.handler)

\* the request passes every check its handler makes before it looks at the
\* caller's permission
WellFormed(r) ==
    \/ r.verb = "PUT" /\ InputOk(r) /\ TokenOk(r)
    \/ r.verb = "DELETE" /\ TokenOk(r)

\* a PUT to the settings endpoint that reaches process_put with a payload
\* that holds a value the schema rejects
FailsSchema(r) ==
    /\ r.verb = "PUT" /\ r.handler = Settings
    /\ WellFormed(r) /\ r.can_edit
    /\ "course" \in DOMAIN r.payload.d
    /\ \E k \in DOMAIN r.payload.d["course"].d :
          r.payload.d["course"].d[k] = Scalar(INVALID)

\* a PUT that reaches process_put of the hook endpoint without hook_content
LacksHookContent(r) ==
    /\ r.verb = "PUT" /\ r.handler = Hook
    /\ WellFormed(r) /\ r.can_edit
    /\ "hook_content" \notin DOMAIN r.payload.d

\* a PUT whose request, key or payload is missing or malformed
BadInput(r) == r.verb = "PUT" /\ ~InputOk(r)

\* the last request left the document as it was
DocUnchanged == doc = prev.doc /\ stored = prev.stored

\* C6 as stated: a PUT whose payload fails schema validation is answered
\* 412 and the document is unchanged.
C6_SchemaFailure412 ==
    FailsSchema(req) => responses = <<412>> /\ DocUnchanged

\* C6 amended: a PUT whose payload fails schema validation in process_put
\* is answered 400, save_settings is not called and the document is
\* unchanged.
C6_SchemaFailure400 ==
    FailsSchema(req) =>
        /\ responses = <<400>>
        /\ trace.saves = << >>
        /\ DocUnchanged

C6_Witness ==
    /\ FailsSchema(req)
    /\ responses = <<400>>
    /\ doc \in InitDocs

\* C7: a PUT that fails input or schema validation is answered 400, is not
\* merged, never calls save_settings and leaves the document unchanged; a
\* PUT that is merged or saved has passed every validation.
C7_ValidationBeforeMerge ==
    /\ (BadInput(req) \/ FailsSchema(req) \/ LacksHookContent(req))
          => /\ responses = <<400>>
             /\ ~trace.merged /\ trace.saves = << >>
             /\ DocUnchanged
    /\ (req.verb = "PUT" /\ (trace.merged \/ trace.saves # << >>))
          => ~(BadInput(req) \/ FailsSchema(req) \/ LacksHookContent(req))

C7_Witness ==
    /\ req.verb = "PUT" /\ req.request_param = "json" /\ req.key # << >>
    /\ req.payload_param = "missing"
    /\ req.can_edit
    /\ responses = <<400>>
    /\ stored

\* C8: a PUT or DELETE whose token does not match the XSRF_ACTION of its
\* handler reaches neither process_put / process_delete nor save_settings,
\* is not answered with a success, and the document is unchanged.
C8_WritesNeedToken ==
    (IsWrite(req) /\ req.xsrf_token # XSRF_ACTION(req.handler))
        => /\ ~trace.reached /\ trace.saves = << >>
           /\ 200 \notin {responses[i] : i \in 1..Len(responses)}
           /\ DocUnchanged

C8_Witness ==
    /\ req.verb = "PUT" /\ req.handler = Hook
    /\ req.xsrf_token = XSRF_ACTION(Settings)
    /\ req.can_edit /\ req.request_param = "json" /\ req.payload_param = "json"
    /\ req.key # << >> /\ "hook_content" \in DOMAIN req.payload.d
    /\ ~trace.reached
    /\ Len(responses) = 1

\* C9 as stated: a PUT or DELETE by a caller without edit permission is
\* answered 401 and leaves the document unchanged; a GET by a caller
\* without view permission is answered 401, nothing is read and no token is
\* issued, also when the document is absent.
C9_DeniedIs401 ==
    /\ (IsWrite(req) /\ ~req.can_edit)
          => responses = <<401>> /\ DocUnchanged
    /\ (req.verb = "GET" /\ ~req.can_view)
          => /\ responses = <<401>>
             /\ ~trace.read /\ ~trace.token
             /\ DocUnchanged

\* C9 amended: a PUT or DELETE by a caller without edit permission leaves
\* the document unchanged and never calls save_settings; it is answered 401
\* when the request passes the checks made before the permission check
\* (request, key and payload present and well formed for a PUT, matching
\* token for both).  The GET part is as stated.
C9_DeniedIs401WhenWellFormed ==
    /\ (IsWrite(req) /\ ~req.can_edit)
          => /\ DocUnchanged
             /\ trace.saves = << >> /\ ~trace.reached
             /\ WellFormed(req) => responses = <<401>>
    /\ (req.verb = "GET" /\ ~req.can_view)
          => /\ responses = <<401>>
             /\ ~trace.read /\ ~trace.token
             /\ DocUnchanged

C9_Witness ==
    /\ req.verb = "PUT" /\ ~req.can_edit
    /\ WellFormed(req)
    /\ "hook_content" \in DOMAIN req.payload.d
    /\ responses = <<401>>
    /\ stored

\* C10 as stated: every request that runs to completion sends exactly one
\* envelope, and when save_settings rejects the document that envelope is
\* not a success.
C10_OneEnvelope ==
    req.verb # "none" =>
        /\ Len(responses) = 1
        /\ (trace.saves # << >> /\ ~trace.saves[1].accepted)
               => responses[1] # 200

----------------------------------------------------------------------------
(* Properties of a hook PUT, checked under Spec *)

Missing == [missing |-> TRUE]

\* the value at path in v, or Missing when the path does not resolve
RECURSIVE ValueAt(_, _)
ValueAt(v, path) ==
    IF path = << >> THEN v
    ELSE IF IsDict(v) /\ Head(path) \in DOMAIN v.d
         THEN ValueAt(v.d[Head(path)], Tail(path))
         ELSE Missing

\* the paths of the scalars in v
RECURSIVE LeafPaths(_)
LeafPaths(v) ==
    IF IsDict(v)
    THEN UNION {{<<k>> \o p : p \in LeafPaths(v.d[k])} : k \in DOMAIN v.d}
    ELSE {<< >>}

IsPrefix(p, q) == Len(p) <= Len(q) /\ SubSeq(q, 1, Len(p)) = p

\* the last request was a hook PUT that save_settings accepted
HookPutSaved ==
    /\ req.verb = "PUT" /\ req.handler = Hook
    /\ trace.saves # << >> /\ trace.saves[1].accepted

\* C11: after a successful hook PUT the document passed to save_settings,
\* which is the document stored, holds the hook content at the path
\* HTML_HOOKS / s0 / ... / sn of the key's segments.
C11_PutKeepsWrittenHook ==
    HookPutSaved =>
        /\ doc = trace.saves[1].entity
        /\ ValueAt(doc, <<HTML_HOOKS>> \o key_split(req.key))
               = req.payload.d["hook_content"]

C11_Witness ==
    /\ HookPutSaved
    /\ req.key = <<HTML_HOOKS, SEPARATOR, "a">>
    /\ ValueAt(prev.doc, <<HTML_HOOKS, "a">>) = Old
    /\ ValueAt(doc, <<HTML_HOOKS, HTML_HOOKS, "a">>) = Scalar("<p>hi</p>")

\* C12 as stated, for the hooks that are not on the path of K (neither a
\* prefix nor an extension of it; those the merge itself replaces): a
\* successful hook PUT leaves every such hook under HTML_HOOKS with its
\* value.
C12_PutKeepsOtherHooks ==
    HookPutSaved =>
        \A p \in LeafPaths(ValueAt(prev.doc, <<HTML_HOOKS>>)) :
            (/\ ValueAt(prev.doc, <<HTML_HOOKS>>) # Missing
             /\ ~IsPrefix(p, key_split(req.key))
             /\ ~IsPrefix(key_split(req.key), p))
            => ValueAt(doc, <<HTML_HOOKS>> \o p)
                   = ValueAt(prev.doc, <<HTML_HOOKS>> \o p)

\* C14: a DELETE to the settings endpoint that passes the token check is
\* answered 401, whatever the caller's permission; it reaches neither
\* process_delete nor save_settings and the document is unchanged.
C14_SettingsDeleteDenied ==
    (req.verb = "DELETE" /\ req.handler = Settings /\ TokenOk(req))
        => /\ responses = <<401>>
           /\ ~trace.reached /\ trace.saves = << >>
           /\ DocUnchanged

C14_Witness ==
    /\ req.verb = "DELETE" /\ req.handler = Settings /\ TokenOk(req)
    /\ req.can_edit
    /\ responses = <<401>>
    /\ doc = Single("course", Single("title", Scalar("Old")))

----------------------------------------------------------------------------
(* Last writer wins, checked under SpecLww *)

\* the dict the handler of write request r builds from the document d
ExpectedEntity(r, d) ==
    IF r.verb = "DELETE" THEN hook_process_delete(d, r.key)
    ELSE IF r.handler = Hook
    THEN hook_postprocess_put(
             deep_dict_merge(
                 BuildHook(r.key, r.payload.d["hook_content"].s), d), r)
    ELSE deep_dict_merge(settings_process_put(r, r.payload).data, d)

\* both writers read before either saved, and both saves were accepted
BothReadThenSaved ==
    /\ Len(conc.log) = 4
    /\ conc.log[1][2] = "read" /\ conc.log[2][2] = "read"
    /\ \A w \in Writers : conc.at[w].accepted

LastSaver == conc.log[4][1]
FirstSaver == conc.log[3][1]

\* C13: when two write requests each read the document before either
\* saves, the document after both saves is the one the last saver built
\* from the document it read, which is the document both read; the first
\* saver's write is neither merged in nor rejected.
C13_LastWriterWins ==
    BothReadThenSaved =>
        /\ conc.at[LastSaver].read = conc.at[FirstSaver].read
        /\ doc = ExpectedEntity(conc.at[LastSaver].r, conc.at[LastSaver].read)
        /\ stored

C13_Witness ==
    /\ BothReadThenSaved
    /\ conc.at[FirstSaver].r.verb = "PUT"
    /\ conc.at[FirstSaver].r.key = <<"a">>
    /\ conc.at[FirstSaver].r.payload = Single("hook_content", Scalar("<p>hi</p>"))
    /\ conc.at[LastSaver].r.verb = "PUT"
    /\ conc.at[LastSaver].r.key = <<"b">>
    /\ conc.at[LastSaver].read = Single("course", Single("title", Scalar("Old")))
    /\ ValueAt(doc, <<HTML_HOOKS, "a">>) = Missing
    /\ ValueAt(doc, <<HTML_HOOKS, "b">>) # Missing

----------------------------------------------------------------------------
(* Registration of settings sections, checked under SpecReg *)

\* the section name a call registers under
NameOf(c) ==
    IF c.name # None THEN c.name.s
    ELSE IF IsString(c.settings) THEN c.settings.s
    ELSE c.settings.list[1]

\* the settings paths a call passes
PathsOf(c) == IF IsString(c.settings) THEN <<c.settings.s>> ELSE c.settings.list

\* the paths of the calls made with name, in call order
RECURSIVE PathsFor(_, _)
PathsFor(calls, name) ==
    IF calls = << >> THEN << >>
    ELSE (IF NameOf(Head(calls)) = name THEN PathsOf(Head(calls)) ELSE << >>)
             \o PathsFor(Tail(calls), name)

Count(seq, Test(_)) == Cardinality({i \in 1..Len(seq) : Test(seq[i])})

\* the first call made with name
FirstCall(calls, name) ==
    calls[CHOOSE i \in 1..Len(calls) :
              /\ NameOf(calls[i]) = name
              /\ \A j \in 1..(i - 1) : NameOf(calls[j]) # name]

\* C15: after any sequence of calls, every name registered has exactly one
\* menu entry, which carries the placement of the first call with that
\* name, exactly one view-permission checker, and a list in
\* GROUP_SETTINGS_LISTS that is the concatenation, in call order, of the
\* paths of the calls made with that name.
C15_OneEntryPerSection ==
    /\ DOMAIN reg.GROUP_SETTINGS_LISTS
           = {NameOf(reg.calls[i]) : i \in 1..Len(reg.calls)}
    /\ \A name \in DOMAIN reg.GROUP_SETTINGS_LISTS :
          LET IsEntry(m) == m.name = name
              IsFirst(m) ==
                  /\ m.name = name
                  /\ m.placement = FirstCall(reg.calls, name).placement
              IsChecker(action) == action = "settings_" \o name
          IN  /\ Count(reg.menu, IsEntry) = 1
              /\ Count(reg.menu, IsFirst) = 1
              /\ Count(reg.checkers, IsChecker) = 1
              /\ reg.GROUP_SETTINGS_LISTS[name] = PathsFor(reg.calls, name)

C15_Witness ==
    /\ Len(reg.calls) = 7
    /\ reg.GROUP_SETTINGS_LISTS["unit"] = <<"unit", "course", "unit", "lesson">>
    /\ Len(reg.menu) = 5

====
